---- MODULE Spec2Model ----
(***************************************************************************)
(* Model of the multi-approvers action: the review-state reconciliation    *)
(* (TeamMembers.approvedCount), the approval check (validateApprovers),    *)
(* the re-trigger of a failed pull_request run (revalidateApprovers) and   *)
(* the orchestration in main, as found in                                  *)
(* .github/actions/multi-approvers/src/index.ts.                           *)
(***************************************************************************)
EXTENDS Integers, Sequences, FiniteSets, TLC

VARIABLES
  pc,                 \* position of the invocation in main / validateApprovers / approvedCount
  eventName,          \* context.eventName
  hasToken,           \* core.getInput("token") is non-empty
  hasTeam,            \* core.getInput("team") is non-empty
  hasPullRequest,     \* context.payload.pull_request is present
  membership,         \* identity provider: login -> response of getMembershipForUserInOrg
  prLogin,            \* prResponse.data.user.login, "" before the pull request is fetched
  reviewsResponse,    \* the review list as the provider returned it (provider order)
  submittedReviews,   \* the array held by validateApprovers and passed to approvedCount
  idx,                \* position of the for-of loop of approvedCount in the sorted array
  reviewStateByLogin, \* the Map of approvedCount
  approvedCount,      \* value returned by approvedCount, -1 before it returned
  workflowId,         \* workflow id resolved by getWorkflowId, 0 before
  runsResponse,       \* << runs >> once listWorkflowRuns has answered with runs, << >> before
  failedRuns,         \* failedRuns of revalidateApprovers, after filter and sort
  err,                \* message of the error thrown into main's catch block
  failed,             \* messages passed to core.setFailed, in order
  calls               \* provider calls issued by this invocation, in order

\* What the invocation is given and never writes.
inputs == << eventName, hasToken, hasTeam, hasPullRequest, membership >>

\* Locals of validateApprovers and approvedCount.
approval == << prLogin, reviewsResponse, submittedReviews, idx, reviewStateByLogin >>

\* Locals of main's re-trigger branch and of revalidateApprovers.
retrigger == << workflowId, runsResponse, failedRuns >>

vars == << pc, inputs, approval, approvedCount, retrigger, err, failed, calls >>

(***************************************************************************)
(* Program constants.                                                      *)
(***************************************************************************)
MIN_APPROVED_COUNT == 2
APPROVED == "approved"
COMMENTED == "commented"
PULL_REQUEST_REVIEW == "pull_request_review"
PULL_REQUEST == "pull_request"
SUPPORTED_EVENTS == {PULL_REQUEST, PULL_REQUEST_REVIEW}
ALLOWED_ROLES == {"maintainer", "member"}
ACTIVE == "active"

(***************************************************************************)
(* Bounds of the model.                                                    *)
(***************************************************************************)
MaxReviews == 3      \* longest review list handed to approvedCount alone
MaxTime == 2         \* review timestamps range over 1..MaxTime
MaxPrReviews == 2    \* longest review list the provider returns to main
MaxRuns == 2         \* longest list of failed runs the provider returns

(***************************************************************************)
(* Data the providers return.                                              *)
(***************************************************************************)
PrOwner == "pr-owner"
Logins == {PrOwner, "approver-1", "approver-2"}
ReviewStates == {APPROVED, COMMENTED, "request_changes"}

\* submitted_at of a review that carries no timestamp (null / undefined).
NoTime == -1
Times == {NoTime} \cup (1..MaxTime)

Reviews == [login : Logins, state : ReviewStates, submitted_at : Times]

RECURSIVE SeqsUpTo(_, _)
SeqsUpTo(S, n) ==
  IF n = 0 THEN {<< >>}
  ELSE LET shorter == SeqsUpTo(S, n - 1)
       IN  shorter \cup {Append(s, x) : s \in {t \in shorter : Len(t) = n - 1}, x \in S}

ReviewLists == SeqsUpTo(Reviews, MaxReviews)

\* Responses of teams.getMembershipForUserInOrg.
MemberResponse == [status |-> 200, role |-> "member", state |-> "active"]
MaintainerResponse == [status |-> 200, role |-> "maintainer", state |-> "active"]
PendingResponse == [status |-> 200, role |-> "member", state |-> "pending"]
NotFoundResponse == [status |-> 404, role |-> "", state |-> ""]
ServerErrorResponse == [status |-> 500, role |-> "", state |-> ""]
\* A role the team API does not have today, in an active membership.
OtherRoleResponse == [status |-> 200, role |-> "billing_manager", state |-> "active"]
MembershipResponses ==
  {MemberResponse, MaintainerResponse, PendingResponse, OtherRoleResponse,
   NotFoundResponse, ServerErrorResponse}

\* Variant: a 404 is rethrown like any other failure.
ContainsThrowsOnNotFound(response) == response.status # 200

(***************************************************************************)
(* TeamMembers.contains.                                                   *)
(***************************************************************************)
\* The membership query ends in an error that contains rethrows.
ContainsThrows(response) == response.status \notin {200, 404}

\* Variant: the state of the membership is not looked at.
ContainsIgnoresState(response) ==
  /\ response.status = 200
  /\ response.role \in ALLOWED_ROLES

\* The value contains returns when it does not throw.
Contains(response) ==
  /\ response.status = 200
  /\ response.role \in ALLOWED_ROLES
  /\ response.state = ACTIVE

(***************************************************************************)
(* TeamMembers.approvedCount: the sort.                                    *)
(***************************************************************************)
\* Variant: an event without a timestamp sorts after every timestamped event.
GetTimeMissingIsLatest(r) == IF r.submitted_at = NoTime THEN MaxTime + 1 ELSE r.submitted_at

\* new Date(r.submitted_at || 0).getTime()
GetTime(r) == IF r.submitted_at = NoTime THEN 0 ELSE r.submitted_at

\* The comparator passed to Array.prototype.sort.
CompareReviews(a, b) == GetTime(a) - GetTime(b)

RECURSIVE InsertReview(_, _)
InsertReview(sorted, r) ==
  IF sorted = << >> THEN << r >>
  ELSE IF CompareReviews(Head(sorted), r) <= 0
       THEN << Head(sorted) >> \o InsertReview(Tail(sorted), r)
       ELSE << r >> \o sorted

\* Variant: the reviews are folded in the order the provider listed them.
SortReviewsUnsorted(reviews) == reviews

\* Array.prototype.sort with a consistent comparator: ascending and stable.
RECURSIVE SortReviews(_)
SortReviews(reviews) ==
  IF reviews = << >> THEN << >>
  ELSE InsertReview(SortReviews(SubSeq(reviews, 1, Len(reviews) - 1)),
                    reviews[Len(reviews)])

(***************************************************************************)
(* TeamMembers.approvedCount: the fold.                                    *)
(***************************************************************************)
EmptyMap == [l \in {} |-> APPROVED]

\* Map.prototype.set
SetState(map, login, state) ==
  [l \in (DOMAIN map) \cup {login} |-> IF l = login THEN state ELSE map[l]]

\* Variant: the author's own reviews are folded like anybody else's.
IgnorePrUserNever(r, login) == FALSE

\* "Ignore the PR user."
IgnorePrUser(r, login) == r.login = login

\* Variant: a comment overwrites a recorded approval like any other review.
UpdateStateLastWins(map, r) == SetState(map, r.login, r.state)

\* Variant: a recorded approval is never overwritten.
UpdateStateStickyApproval(map, r) ==
  IF r.login \notin DOMAIN map THEN SetState(map, r.login, r.state)
  ELSE IF map[r.login] # APPROVED THEN SetState(map, r.login, r.state)
  ELSE map

\* Variant: the rule "always update state if not approved" is missing.
UpdateStateKeepsNonApproved(map, r) ==
  IF r.login \notin DOMAIN map THEN SetState(map, r.login, r.state)
  ELSE IF map[r.login] = APPROVED /\ r.state # COMMENTED
       THEN SetState(map, r.login, r.state)
  ELSE map

\* Variant: a change request also overwrites the state of every other reviewer.
UpdateStateDismissesAll(map, r) ==
  IF r.state \notin {APPROVED, COMMENTED}
  THEN [l \in (DOMAIN map) \cup {r.login} |-> r.state]
  ELSE IF r.login \notin DOMAIN map THEN SetState(map, r.login, r.state)
  ELSE IF map[r.login] # APPROVED THEN SetState(map, r.login, r.state)
  ELSE map

\* The three update rules applied to the review of an internal user.
UpdateState(map, r) ==
  IF r.login \notin DOMAIN map THEN SetState(map, r.login, r.state)
  ELSE IF map[r.login] # APPROVED THEN SetState(map, r.login, r.state)
  ELSE IF map[r.login] = APPROVED /\ r.state # COMMENTED
       THEN SetState(map, r.login, r.state)
  ELSE map

\* Variant: the membership answer is not consulted.
FoldReviewOfAnyone(map, r, isInternalUser) == UpdateState(map, r)

\* Variant: the membership test is inverted.
FoldReviewOfOutsiders(map, r, isInternalUser) ==
  IF isInternalUser THEN map ELSE UpdateState(map, r)

\* "Only consider internal users", then the update rules.
FoldReview(map, r, isInternalUser) ==
  IF ~isInternalUser THEN map ELSE UpdateState(map, r)

\* Array.from(map.values()).filter((s) => s === APPROVED).length
CountApproved(map) == Cardinality({l \in DOMAIN map : map[l] = APPROVED})

\* approvedCount as a function of its arguments, when no membership query throws.
RECURSIVE FoldReviews(_, _, _, _)
FoldReviews(map, sorted, login, members) ==
  IF sorted = << >> THEN map
  ELSE LET r == Head(sorted)
           next == IF IgnorePrUser(r, login) THEN map
                   ELSE FoldReview(map, r, Contains(members[r.login]))
       IN  FoldReviews(next, Tail(sorted), login, members)

ApprovedCountOf(reviews, login, members) ==
  CountApproved(FoldReviews(EmptyMap, SortReviews(reviews), login, members))

MembershipCall(login) == << "teams.getMembershipForUserInOrg", login >>

\* Message of the error a provider call fails with.
ProviderError(status) == << "request failed with status ", ToString(status) >>

\* The membership queries approvedCount issues for a sorted review list.
RECURSIVE MembershipQueries(_, _)
MembershipQueries(sorted, login) ==
  IF sorted = << >> THEN << >>
  ELSE (IF IgnorePrUser(Head(sorted), login) THEN << >>
        ELSE << MembershipCall(Head(sorted).login) >>)
       \o MembershipQueries(Tail(sorted), login)

(***************************************************************************)
(* The older copy of the reconciler: inOrgApprovedCount of                 *)
(* .github/workflows/multi-approvers.js. Its state constants 'APPROVED'    *)
(* and 'COMMENTED' are written as the action's APPROVED and COMMENTED.     *)
(***************************************************************************)
\* containsLogin: the login is found in the members list.
ContainsLogin(members, login) == login \in members

\* The two filters: "Remove the PR user", "Only consider users in the org".
InOrgFiltered(members, reviews, login) ==
  SelectSeq(SelectSeq(reviews, LAMBDA r : r.login # login),
            LAMBDA r : ContainsLogin(members, r.login))

\* Every event of the list carries a timestamp.
HasTimestamps(reviews) ==
  \A i \in 1..Len(reviews) : reviews[i].submitted_at # NoTime

\* new Date(a.submitted_at) - new Date(b.submitted_at), both timestamps present.
CompareSubmittedAt(a, b) == a.submitted_at - b.submitted_at

RECURSIVE InOrgInsert(_, _)
InOrgInsert(sorted, r) ==
  IF sorted = << >> THEN << r >>
  ELSE IF CompareSubmittedAt(Head(sorted), r) <= 0
       THEN << Head(sorted) >> \o InOrgInsert(Tail(sorted), r)
       ELSE << r >> \o sorted

RECURSIVE InOrgSort(_)
InOrgSort(reviews) ==
  IF reviews = << >> THEN << >>
  ELSE InOrgInsert(InOrgSort(SubSeq(reviews, 1, Len(reviews) - 1)),
                   reviews[Len(reviews)])

\* The arrays the sort can produce. An event without a timestamp makes the
\* comparator return NaN, which is no consistent comparator: the order is then
\* left to the implementation.
InOrgSortOutcomes(reviews) ==
  IF HasTimestamps(reviews) THEN {InOrgSort(reviews)}
  ELSE {[k \in 1..Len(reviews) |-> reviews[p[k]]] : p \in Permutations(1..Len(reviews))}

\* The three update rules of the forEach callback.
InOrgUpdateState(map, r) ==
  IF r.login \notin DOMAIN map THEN SetState(map, r.login, r.state)
  ELSE IF map[r.login] # APPROVED THEN SetState(map, r.login, r.state)
  ELSE IF map[r.login] = APPROVED /\ r.state # COMMENTED
       THEN SetState(map, r.login, r.state)
  ELSE map

RECURSIVE InOrgFold(_, _)
InOrgFold(map, sorted) ==
  IF sorted = << >> THEN map
  ELSE InOrgFold(InOrgUpdateState(map, Head(sorted)), Tail(sorted))

\* The values inOrgApprovedCount can return.
InOrgApprovedCounts(members, reviews, login) ==
  {CountApproved(InOrgFold(EmptyMap, sorted)) :
     sorted \in InOrgSortOutcomes(InOrgFiltered(members, reviews, login))}

(***************************************************************************)
(* Steps of approvedCount.                                                 *)
(***************************************************************************)

\* Lines 181-186: the in-place sort and the empty map.
ApprovedCountSort ==
  /\ pc = "approved_count"
  /\ submittedReviews' = SortReviews(submittedReviews)
  /\ reviewStateByLogin' = EmptyMap
  /\ idx' = 1
  /\ pc' = "for_reviews"
  /\ UNCHANGED << inputs, prLogin, reviewsResponse, approvedCount, retrigger,
                  err, failed, calls >>

\* Lines 188-194: a review of the pull request's author is skipped without a query.
ApprovedCountIgnorePrUser ==
  /\ pc = "for_reviews"
  /\ idx <= Len(submittedReviews)
  /\ IgnorePrUser(submittedReviews[idx], prLogin)
  /\ idx' = idx + 1
  /\ UNCHANGED << pc, inputs, prLogin, reviewsResponse, submittedReviews,
                  reviewStateByLogin, approvedCount, retrigger, err, failed, calls >>

\* Lines 196-222: one membership query for the review, then the update rules.
\* A query that fails with another status than 404 unwinds to main's catch block.
ApprovedCountReview ==
  /\ pc = "for_reviews"
  /\ idx <= Len(submittedReviews)
  /\ ~IgnorePrUser(submittedReviews[idx], prLogin)
  /\ LET r == submittedReviews[idx]
     IN  /\ calls' = Append(calls, MembershipCall(r.login))
         /\ LET response == membership[r.login]
            IN IF ContainsThrows(response)
              THEN /\ pc' = "catch"
                   /\ err' = ProviderError(response.status)
                   /\ submittedReviews' = << >>
                   /\ reviewsResponse' = << >>
                   /\ reviewStateByLogin' = EmptyMap
                   /\ idx' = 0
                   /\ prLogin' = ""
              ELSE /\ reviewStateByLogin' = FoldReview(reviewStateByLogin, r, Contains(response))
                   /\ idx' = idx + 1
                   /\ UNCHANGED << pc, err, submittedReviews, reviewsResponse, prLogin >>
  /\ UNCHANGED << inputs, approvedCount, retrigger, failed >>

\* Lines 224-225: the number of reviewers whose state is approved.
ApprovedCountReturn ==
  /\ pc = "for_reviews"
  /\ idx > Len(submittedReviews)
  /\ approvedCount' = CountApproved(reviewStateByLogin)
  /\ pc' = "approved_count_returned"
  /\ UNCHANGED << inputs, approval, retrigger, err, failed, calls >>

(***************************************************************************)
(* approvedCount on its own: every review list up to MaxReviews, every     *)
(* membership answer per login.                                            *)
(***************************************************************************)
InitCount ==
  /\ pc = "approved_count"
  /\ eventName = PULL_REQUEST
  /\ hasToken = TRUE
  /\ hasTeam = TRUE
  /\ hasPullRequest = TRUE
  /\ membership \in [Logins -> {MemberResponse, NotFoundResponse}]
  /\ prLogin = PrOwner
  /\ reviewsResponse \in ReviewLists
  /\ submittedReviews = reviewsResponse
  /\ idx = 0
  /\ reviewStateByLogin = EmptyMap
  /\ approvedCount = -1
  /\ workflowId = 0
  /\ runsResponse = << >>
  /\ failedRuns = << >>
  /\ err = << >>
  /\ failed = << >>
  /\ calls = << >>

\* The whole call approvedCount(submittedReviews, prLogin), every membership query
\* answering: the array is sorted in place, one query is issued per review that is
\* not the author's, and the count is returned.
ApprovedCountCall ==
  /\ pc = "approved_count"
  /\ submittedReviews' = SortReviews(submittedReviews)
  /\ reviewStateByLogin' = FoldReviews(EmptyMap, submittedReviews', prLogin, membership)
  /\ idx' = Len(submittedReviews) + 1
  /\ calls' = calls \o MembershipQueries(submittedReviews', prLogin)
  /\ approvedCount' = ApprovedCountOf(submittedReviews, prLogin, membership)
  /\ pc' = "approved_count_returned"
  /\ UNCHANGED << inputs, prLogin, reviewsResponse, retrigger, err, failed >>

NextCount == ApprovedCountCall

SpecCount == InitCount /\ [][NextCount]_vars

(***************************************************************************)
(* Data of the orchestration.                                              *)
(***************************************************************************)
EventNames == {PULL_REQUEST, PULL_REQUEST_REVIEW, "push"}

\* The provider lists the reviews in the order they were submitted; the k-th
\* review carries the time k or no time.
RECURSIVE ListedReviews(_)
ListedReviews(n) ==
  IF n = 0 THEN {<< >>}
  ELSE LET shorter == ListedReviews(n - 1)
       IN  shorter \cup
           {Append(s, [login |-> l, state |-> st, submitted_at |-> t]) :
              s \in {u \in shorter : Len(u) = n - 1},
              l \in Logins, st \in ReviewStates, t \in {NoTime, n}}

PrReviewLists == ListedReviews(MaxPrReviews)

\* The pull request the invocation is about, and the workflow of the run.
PullNumber == 12
WorkflowId == 37
RunIds == {12, 21, 827}

\* The hour a run was started at (run_started_at), as in the test's fixture:
\* run 12 at 10:00, run 827 at 12:00, run 21 at 11:00.
RunStartedAt(id) == IF id = 12 THEN 10 ELSE IF id = 827 THEN 12 ELSE 11

\* Variant: the listing asks for the runs of review events.
ListedEventReview == PULL_REQUEST_REVIEW

\* Line 298: the event filter revalidateApprovers passes to listWorkflowRuns.
ListedEvent == PULL_REQUEST

\* A run the provider answers the listing with: a failed run of the branch
\* triggered by the event the listing asked for; pull_requests may be missing.
WorkflowRuns ==
  {[id |-> i, event |-> ListedEvent, has_pull_requests |-> h, pull_requests |-> p,
    run_started_at |-> RunStartedAt(i)] :
     i \in RunIds, h \in {TRUE},
     p \in {<< >>, << PullNumber >>, << PullNumber + 1 >>}}
  \cup {[id |-> i, event |-> ListedEvent, has_pull_requests |-> FALSE,
         pull_requests |-> << >>, run_started_at |-> RunStartedAt(i)] : i \in RunIds}

RunLists ==
  {runs \in SeqsUpTo(WorkflowRuns, MaxRuns) :
     \A i, j \in 1..Len(runs) : i # j => runs[i].id # runs[j].id}

(***************************************************************************)
(* Messages.                                                               *)
(***************************************************************************)
Banner == "Multi-approvers action failed: "

\* Variant: the policy failure carries the banner of main's catch block.
PolicyMessageWithBanner(count) ==
  << "Multi-approvers action failed: ", "This pull request has ", ToString(count),
     " of ", ToString(MIN_APPROVED_COUNT), " required internal approvals." >>

\* The message validateApprovers passes to core.setFailed.
PolicyMessage(count) ==
  << "This pull request has ", ToString(count), " of ", ToString(MIN_APPROVED_COUNT),
     " required internal approvals." >>

\* validateEvent: the message of the error thrown for an unsupported event.
EventError(name) ==
  << "Unexpected event [", name, "]. Supported events are ",
     "pull_request, pull_request_review" >>

\* Variant: validateInputs throws at the first missing input.
InputErrorsFirstOnly(token, team) ==
  IF ~token THEN << "Invalid input(s): ", "token is required" >>
  ELSE IF ~team THEN << "Invalid input(s): ", "team is required" >>
  ELSE << >>

\* validateInputs: the message of the error thrown, << >> when nothing is missing.
InputErrors(token, team) ==
  LET errors == (IF ~token THEN << "token is required" >> ELSE << >>)
                \o (IF ~team THEN << "team is required" >> ELSE << >>)
  IN  IF Len(errors) = 0 THEN << >>
      ELSE << "Invalid input(s): " >>
           \o (IF Len(errors) = 2 THEN << errors[1], "; ", errors[2] >> ELSE errors)

(***************************************************************************)
(* main and validateApprovers.                                             *)
(***************************************************************************)
\* Variant: main returns after validateApprovers whatever the event.
AfterValidateApproversNoRetrigger(name) == "end"

\* Variant: main runs the re-trigger step whatever the event.
AfterValidateApproversAlwaysRetrigger(name) == "get_workflow_run"

\* Lines 379-381: where main goes once validateApprovers has returned.
AfterValidateApprovers(name) ==
  IF name = PULL_REQUEST_REVIEW THEN "get_workflow_run" ELSE "end"

\* Variant: reconciliation starts without the review list.
AfterContainsPrLoginSkipsListing(isInternalPr, name) ==
  IF isInternalPr THEN AfterValidateApprovers(name) ELSE "approved_count"

\* Variant: the early return for an internal author is missing.
AfterContainsPrLoginNoReturn(isInternalPr, name) == "list_reviews"

\* Lines 246-256: validateApprovers returns at once for an internal author.
AfterContainsPrLogin(isInternalPr, name) ==
  IF isInternalPr THEN AfterValidateApprovers(name) ELSE "list_reviews"

\* Variant: the comparison is <= instead of <.
BelowThresholdInclusive(count) == count <= MIN_APPROVED_COUNT

\* Line 269: the comparison against the required number of approvals.
BelowThreshold(count) == count < MIN_APPROVED_COUNT

\* Variant: a policy failure ends the invocation.
AfterCheckThresholdFailureEnds(below, name) ==
  IF below THEN "end" ELSE AfterValidateApprovers(name)

\* Lines 269-276: setFailed neither throws nor returns from main, so
\* validateApprovers returns normally whatever the decision.
AfterCheckThreshold(below, name) == AfterValidateApprovers(name)

\* The locals of validateApprovers and approvedCount once the frame is gone.
ApprovalLocalsDropped ==
  /\ prLogin' = ""
  /\ reviewsResponse' = << >>
  /\ submittedReviews' = << >>
  /\ idx' = 0
  /\ reviewStateByLogin' = EmptyMap

\* Variant: the error is swallowed and main ends without a signal.
ThrowSwallowed(message) ==
  /\ pc' = "end"
  /\ err' = message

\* Variant: the error leaves main without reaching the catch block.
ThrowUncaught(message) ==
  /\ pc' = "uncaught"
  /\ err' = message

\* An error thrown inside main's try block.
Throw(message) ==
  /\ pc' = "catch"
  /\ err' = message

\* Lines 361-375: main reads the context and validates the event and the inputs.
Main ==
  /\ pc = "main"
  /\ IF ~hasPullRequest
     THEN Throw(<< "Cannot read properties of undefined (reading 'head')" >>)
     ELSE IF eventName \notin SUPPORTED_EVENTS
     THEN Throw(EventError(eventName))
     ELSE IF InputErrors(hasToken, hasTeam) # << >>
     THEN Throw(InputErrors(hasToken, hasTeam))
     ELSE pc' = "pulls_get" /\ UNCHANGED err
  /\ UNCHANGED << inputs, approval, approvedCount, retrigger, failed, calls >>

\* Lines 238-244: validateApprovers fetches the pull request.
PullsGet ==
  /\ pc = "pulls_get"
  /\ calls' = Append(calls, << "pulls.get", ToString(PullNumber) >>)
  /\ \E status \in {200, 404, 500} :
       IF status = 200
       THEN /\ prLogin' = PrOwner
            /\ pc' = "contains_pr_login"
            /\ UNCHANGED err
       ELSE /\ Throw(ProviderError(status))
            /\ UNCHANGED prLogin
  /\ UNCHANGED << inputs, reviewsResponse, submittedReviews, idx, reviewStateByLogin,
                  approvedCount, retrigger, failed >>

\* Lines 246-255: the membership test of the author.
ContainsPrLogin ==
  /\ pc = "contains_pr_login"
  /\ calls' = Append(calls, MembershipCall(prLogin))
  /\ LET response == membership[prLogin]
     IN IF ContainsThrows(response)
       THEN /\ Throw(ProviderError(response.status))
            /\ ApprovalLocalsDropped
       ELSE /\ pc' = AfterContainsPrLogin(Contains(response), eventName)
            /\ IF pc' = "list_reviews"
               THEN UNCHANGED approval
               ELSE ApprovalLocalsDropped
            /\ UNCHANGED err
  /\ UNCHANGED << inputs, approvedCount, retrigger, failed >>

\* Lines 256-265: every page of the reviews, then the call of approvedCount.
ListReviews ==
  /\ pc = "list_reviews"
  /\ calls' = Append(calls, << "pulls.listReviews", ToString(PullNumber) >>)
  /\ \/ \E reviews \in PrReviewLists :
          /\ reviewsResponse' = reviews
          /\ submittedReviews' = reviews
          /\ pc' = "approved_count"
          /\ UNCHANGED << prLogin, idx, reviewStateByLogin, err >>
     \/ /\ Throw(ProviderError(500))
        /\ ApprovalLocalsDropped
  /\ UNCHANGED << inputs, approvedCount, retrigger, failed >>

\* Lines 267-276: the decision; validateApprovers returns into main.
CheckThreshold ==
  /\ pc = "approved_count_returned"
  /\ failed' = IF BelowThreshold(approvedCount)
               THEN Append(failed, PolicyMessage(approvedCount))
               ELSE failed
  /\ pc' = AfterCheckThreshold(BelowThreshold(approvedCount), eventName)
  /\ ApprovalLocalsDropped
  /\ UNCHANGED << inputs, approvedCount, retrigger, err, calls >>

(***************************************************************************)
(* getWorkflowId and revalidateApprovers.                                  *)
(***************************************************************************)
\* Lines 319-331 and 382-387.
GetWorkflowRun ==
  /\ pc = "get_workflow_run"
  /\ calls' = Append(calls, << "actions.getWorkflowRun", "" >>)
  /\ \/ /\ workflowId' = WorkflowId
        /\ pc' = "list_workflow_runs"
        /\ UNCHANGED err
     \/ /\ Throw(ProviderError(500))
        /\ UNCHANGED workflowId
  /\ UNCHANGED << inputs, approval, approvedCount, runsResponse, failedRuns, failed >>

\* Variant: every failed run of the branch qualifies.
RunsOfPullUnfiltered(runs, number) == runs

\* Lines 303-306: the runs whose pull_requests name the pull request.
RECURSIVE RunsOfPull(_, _)
RunsOfPull(runs, number) ==
  IF runs = << >> THEN << >>
  ELSE (IF \E k \in 1..Len(Head(runs).pull_requests) :
              Head(runs).pull_requests[k] = number
        THEN << Head(runs) >> ELSE << >>)
       \o RunsOfPull(Tail(runs), number)

\* Line 307: sort((v) => v.id). The function is no consistent comparator (it
\* ignores its second argument), so the order of the result is left to the
\* implementation: any arrangement of the same runs.
SortedByComparator(runs) ==
  {[k \in 1..Len(runs) |-> runs[p[k]]] : p \in Permutations(1..Len(runs))}

\* Variant: the re-run is requested without looking at the list.
HasFailedRunsAlways(runs) == TRUE

\* Line 310: failedRuns.length > 0
HasFailedRuns(runs) == Len(runs) > 0

\* Lines 292-310: the failed pull_request runs of the branch, filtered and sorted.
ListWorkflowRuns ==
  /\ pc = "list_workflow_runs"
  /\ calls' = Append(calls, << "actions.listWorkflowRuns", ToString(workflowId) >>)
  /\ \/ \E runs \in RunLists :
          \E sorted \in SortedByComparator(RunsOfPull(runs, PullNumber)) :
            /\ runsResponse' = << runs >>
            /\ failedRuns' = sorted
            /\ pc' = IF HasFailedRuns(sorted) THEN "rerun_workflow" ELSE "end"
            /\ UNCHANGED err
     \/ /\ Throw(ProviderError(500))
        /\ UNCHANGED << runsResponse, failedRuns >>
  /\ UNCHANGED << inputs, approval, approvedCount, workflowId, failed >>

\* Variant: a re-run is requested for each of the failed runs.
RerunRequestsForAll(runs) ==
  [k \in 1..Len(runs) |-> << "actions.reRunWorkflow", ToString(runs[k].id) >>]

\* Lines 311-315: the one call of reRunWorkflow, with failedRuns[0].id.
RerunRequests(runs) ==
  << << "actions.reRunWorkflow", ToString(runs[1].id) >> >>

\* Lines 310-316: the re-run request for the first of the failed runs;
\* failedRuns[0] of an empty array is undefined and reading its id throws.
\* The local failedRuns is gone once revalidateApprovers is left.
ReRunWorkflow ==
  /\ pc = "rerun_workflow"
  /\ IF Len(failedRuns) = 0
     THEN /\ Throw(<< "Cannot read properties of undefined (reading 'id')" >>)
          /\ UNCHANGED calls
     ELSE /\ calls' = calls \o RerunRequests(failedRuns)
          /\ \/ pc' = "end" /\ UNCHANGED err
             \/ Throw(ProviderError(500))
  /\ failedRuns' = << >>
  /\ UNCHANGED << inputs, approval, approvedCount, workflowId, runsResponse, failed >>

\* Lines 397-409: every error thrown in the try block ends in one setFailed.
Catch ==
  /\ pc = "catch"
  /\ failed' = Append(failed, << Banner >> \o err)
  /\ err' = << >>
  /\ pc' = "end"
  /\ UNCHANGED << inputs, approval, approvedCount, retrigger, calls >>

(***************************************************************************)
(* One invocation of main.                                                 *)
(***************************************************************************)
Init ==
  /\ pc = "main"
  /\ eventName \in EventNames
  /\ hasToken \in BOOLEAN
  /\ hasTeam \in BOOLEAN
  \* the payload of a pull_request or pull_request_review event carries the
  \* pull request; the payload of another event need not
  /\ hasPullRequest \in (IF eventName \in SUPPORTED_EVENTS THEN {TRUE} ELSE BOOLEAN)
  /\ membership \in [Logins -> MembershipResponses]
  /\ prLogin = ""
  /\ reviewsResponse = << >>
  /\ submittedReviews = << >>
  /\ idx = 0
  /\ reviewStateByLogin = EmptyMap
  /\ approvedCount = -1
  /\ workflowId = 0
  /\ runsResponse = << >>
  /\ failedRuns = << >>
  /\ err = << >>
  /\ failed = << >>
  /\ calls = << >>

Next ==
  \/ Main
  \/ PullsGet
  \/ ContainsPrLogin
  \/ ListReviews
  \/ ApprovedCountSort
  \/ ApprovedCountIgnorePrUser
  \/ ApprovedCountReview
  \/ ApprovedCountReturn
  \/ CheckThreshold
  \/ GetWorkflowRun
  \/ ListWorkflowRuns
  \/ ReRunWorkflow
  \/ Catch

Spec == Init /\ [][Next]_vars

\* The steps of main that await a provider call.
ProviderSteps ==
  \/ PullsGet
  \/ ContainsPrLogin
  \/ ListReviews
  \/ ApprovedCountReview
  \/ GetWorkflowRun
  \/ ListWorkflowRuns
  \/ ReRunWorkflow

\* The steps of main that run synchronously between two awaits.
LocalSteps ==
  \/ Main
  \/ ApprovedCountSort
  \/ ApprovedCountIgnorePrUser
  \/ ApprovedCountReturn
  \/ CheckThreshold
  \/ Catch

\* One invocation of main whose provider calls all come back, with a result
\* or an error, and whose synchronous code runs on once resumed.
SpecLive == Init /\ [][Next]_vars /\ WF_vars(ProviderSteps) /\ WF_vars(LocalSteps)

(***************************************************************************)
(* The entry point of index.ts lines 43-71: main builds a                 *)
(* MultiApproversAction and calls validate() without awaiting it.          *)
(***************************************************************************)
\* Lines 36-41: the message of the error this validateEvent throws.
IndexEventError(name) == << "Unexpected event [", name, "]." >>

\* errorMessage of actions-utils: the message with its first letter in lower case.
ErrorMessage(message) ==
  IF message = << >> THEN << >>
  ELSE << (CASE Head(message) = "Unexpected event [" -> "unexpected event ["
             [] Head(message) = "Invalid input(s): " -> "invalid input(s): "
             [] Head(message) = "Cannot read properties of undefined (reading 'head')"
                  -> "cannot read properties of undefined (reading 'head')"
             [] OTHER -> Head(message)) >> \o Tail(message)

\* The reason validate() rejects with, << >> when it resolves: the pull
\* request cannot be fetched, a membership query fails, or the approvals are
\* below the required number.
ValidateRejection(pullStatus, reviews) ==
  IF pullStatus # 200 THEN ProviderError(pullStatus)
  ELSE IF ContainsThrows(membership[PrOwner])
  THEN ProviderError(membership[PrOwner].status)
  ELSE IF Contains(membership[PrOwner]) THEN << >>
  ELSE IF \E k \in 1..Len(reviews) :
            /\ reviews[k].login # PrOwner
            /\ ContainsThrows(membership[reviews[k].login])
  THEN ProviderError(500)
  ELSE LET count == ApprovedCountOf(reviews, PrOwner, membership)
       IN  IF count < MIN_APPROVED_COUNT THEN PolicyMessage(count) ELSE << >>

\* Lines 44-66: the try block up to the call of validate(), which is not
\* awaited: main leaves the try block while the promise is pending.
IndexMain ==
  /\ pc = "index_main"
  /\ IF eventName \notin SUPPORTED_EVENTS
     THEN Throw(IndexEventError(eventName))
     ELSE IF InputErrors(hasToken, hasTeam) # << >>
     THEN Throw(InputErrors(hasToken, hasTeam))
     ELSE IF ~hasPullRequest
     THEN Throw(<< "Cannot read properties of undefined (reading 'head')" >>)
     ELSE pc' = "validate_pending" /\ UNCHANGED err
  /\ UNCHANGED << inputs, approval, approvedCount, retrigger, failed, calls >>

\* Lines 67-70: the catch block of this main.
IndexCatch ==
  /\ pc = "catch"
  /\ failed' = Append(failed, << Banner >> \o ErrorMessage(err))
  /\ err' = << >>
  /\ pc' = "end"
  /\ UNCHANGED << inputs, approval, approvedCount, retrigger, calls >>

\* The promise validate() returned settles after main has returned: nothing
\* handles its rejection.
ValidateSettles ==
  /\ pc = "validate_pending"
  /\ \E pullStatus \in {200, 500} : \E reviews \in PrReviewLists :
       LET rejection == ValidateRejection(pullStatus, reviews)
       IN  IF rejection = << >>
           THEN pc' = "end" /\ UNCHANGED err
           ELSE pc' = "unhandled_rejection" /\ err' = rejection
  /\ UNCHANGED << inputs, approval, approvedCount, retrigger, failed, calls >>

InitIndex ==
  /\ pc = "index_main"
  /\ eventName \in EventNames
  /\ hasToken \in BOOLEAN
  /\ hasTeam \in BOOLEAN
  /\ hasPullRequest \in (IF eventName \in SUPPORTED_EVENTS THEN {TRUE} ELSE BOOLEAN)
  /\ membership \in [Logins -> MembershipResponses]
  /\ prLogin = ""
  /\ reviewsResponse = << >>
  /\ submittedReviews = << >>
  /\ idx = 0
  /\ reviewStateByLogin = EmptyMap
  /\ approvedCount = -1
  /\ workflowId = 0
  /\ runsResponse = << >>
  /\ failedRuns = << >>
  /\ err = << >>
  /\ failed = << >>
  /\ calls = << >>

NextIndex ==
  \/ IndexMain
  \/ IndexCatch
  \/ ValidateSettles

SpecIndex == InitIndex /\ [][NextIndex]_vars

(***************************************************************************)
(* Vocabulary of the properties of approvedCount.                          *)
(***************************************************************************)
Returned == pc = "approved_count_returned"

IsMember(login) == Contains(membership[login])

\* Positions of the events of one reviewer, and the list without them.
EventsOf(reviews, login) == {i \in 1..Len(reviews) : reviews[i].login = login}

RECURSIVE Without(_, _)
Without(reviews, logins) ==
  IF reviews = << >> THEN << >>
  ELSE (IF Head(reviews).login \in logins THEN << >> ELSE << Head(reviews) >>)
       \o Without(Tail(reviews), logins)

\* Event i precedes event j chronologically: by timestamp (none counts as the
\* earliest), provider order breaking ties.
Precedes(reviews, i, j) ==
  LET ti == IF reviews[i].submitted_at = NoTime THEN 0 ELSE reviews[i].submitted_at
      tj == IF reviews[j].submitted_at = NoTime THEN 0 ELSE reviews[j].submitted_at
  IN  ti < tj \/ (ti = tj /\ i < j)

\* The review states of one reviewer in chronological order.
History(reviews, login) ==
  LET own == EventsOf(reviews, login)
  IN  [k \in 1..Cardinality(own) |->
         reviews[CHOOSE i \in own :
                   Cardinality({j \in own : Precedes(reviews, j, i)}) = k - 1].state]

\* What approvedCount returns for the list without the events of `logins`.
CountWithout(logins) ==
  ApprovedCountOf(Without(reviewsResponse, logins), prLogin, membership)

\* The same, for a pull request nobody in the list is the author of.
CountWithoutAuthor(logins) ==
  ApprovedCountOf(Without(reviewsResponse, logins), "", membership)

Reviewers == Logins \ {prLogin}

\* A history that is one approval followed only by comments.
ApprovedThenComments(h) ==
  /\ Len(h) >= 1
  /\ h[1] = APPROVED
  /\ \A k \in 2..Len(h) : h[k] = COMMENTED

\* C1: a member, non-author reviewer whose chronological events are APPROVED
\* followed only by COMMENTED events ends recorded as approved and contributes
\* exactly 1 to the count approvedCount returns.
C1_CommentKeepsApproval ==
  Returned =>
    \A l \in Reviewers :
      (IsMember(l) /\ ApprovedThenComments(History(reviewsResponse, l))) =>
        /\ l \in DOMAIN reviewStateByLogin
        /\ reviewStateByLogin[l] = APPROVED
        /\ approvedCount = CountWithout({l}) + 1

C1_Witness ==
  /\ Returned
  /\ \E l \in Reviewers :
       /\ IsMember(l)
       /\ History(reviewsResponse, l) = << APPROVED, COMMENTED >>
       /\ approvedCount = 1

\* A history whose last event is neither APPROVED nor COMMENTED and comes after
\* an APPROVED event.
ApprovalRetracted(h) ==
  /\ Len(h) >= 2
  /\ h[Len(h)] \notin {APPROVED, COMMENTED}
  /\ \E k \in 1..(Len(h) - 1) : h[k] = APPROVED

\* Two reviewers approve, then the second requests changes; nothing else.
TwoApprovalsOneRetracted(a, b) ==
  /\ Len(reviewsResponse) = 3
  /\ History(reviewsResponse, a) = << APPROVED >>
  /\ Len(History(reviewsResponse, b)) = 2
  /\ History(reviewsResponse, b)[1] = APPROVED
  /\ History(reviewsResponse, b)[2] \notin {APPROVED, COMMENTED}

\* C2: a member, non-author reviewer whose latest event is neither APPROVED nor
\* COMMENTED and follows an APPROVED event contributes 0; two approvals followed
\* by a change request of one of the two approvers give count 1.
C2_ChangeRequestRetracts ==
  Returned =>
    /\ \A l \in Reviewers :
         (IsMember(l) /\ ApprovalRetracted(History(reviewsResponse, l))) =>
           /\ l \in DOMAIN reviewStateByLogin
           /\ reviewStateByLogin[l] # APPROVED
           /\ approvedCount = CountWithout({l})
    /\ \A a, b \in Reviewers :
         (a # b /\ IsMember(a) /\ IsMember(b) /\ TwoApprovalsOneRetracted(a, b)) =>
           approvedCount = 1

C2_Witness ==
  /\ Returned
  /\ \E a, b \in Reviewers :
       /\ a # b /\ IsMember(a) /\ IsMember(b)
       /\ TwoApprovalsOneRetracted(a, b)
       /\ approvedCount = 1

\* The state recorded after the events of h is not APPROVED: h has no event
\* other than comments, or the last such event is not an approval.
RecordsNonApproved(h) ==
  LET meaningful == {k \in 1..Len(h) : h[k] # COMMENTED}
  IN  \/ meaningful = {}
      \/ h[CHOOSE k \in meaningful : \A m \in meaningful : m <= k] # APPROVED

\* C3: when the state recorded for a member, non-author reviewer is not APPROVED,
\* the reviewer's next event overwrites it whatever its state; events
\* [APPROVED, CHANGES_REQUESTED, APPROVED] contribute exactly 1.
C3_NonApprovedIsOverwritten ==
  Returned =>
    \A l \in Reviewers :
      LET h == History(reviewsResponse, l)
      IN  (IsMember(l) /\ Len(h) >= 2 /\ RecordsNonApproved(SubSeq(h, 1, Len(h) - 1))) =>
            /\ l \in DOMAIN reviewStateByLogin
            /\ reviewStateByLogin[l] = h[Len(h)]
            /\ (h[Len(h)] = APPROVED => approvedCount = CountWithout({l}) + 1)

C3_Witness ==
  /\ Returned
  /\ \E l \in Reviewers :
       /\ IsMember(l)
       /\ History(reviewsResponse, l) = << APPROVED, "request_changes", APPROVED >>
       /\ approvedCount = 1

\* C4: the reviews of the pull request's author never change the returned
\* count: it equals the count of the list without them, whatever their state
\* and whether or not the author is a member.
C4_AuthorReviewsIgnored ==
  Returned => approvedCount = CountWithoutAuthor({prLogin})

C4_Witness ==
  /\ Returned
  /\ IsMember(prLogin)
  /\ History(reviewsResponse, prLogin) = << APPROVED >>
  /\ Len(reviewsResponse) = 2
  /\ approvedCount = 1

\* C5: the reviews of reviewers for whom the membership test answers false never
\* change the returned count: it equals the count of the list without them.
C5_NonMemberReviewsIgnored ==
  Returned => approvedCount = CountWithout({l \in Logins : ~IsMember(l)})

C5_Witness ==
  /\ Returned
  /\ \E l, m \in Reviewers :
       /\ ~IsMember(l) /\ IsMember(m)
       /\ History(reviewsResponse, l) = << APPROVED >>
       /\ History(reviewsResponse, m) = << APPROVED >>
       /\ approvedCount = 1

MemberLoginsOf(reviews) ==
  {l \in Logins : EventsOf(reviews, l) # {} /\ IsMember(l)}

\* C6: the returned count lies between 0 and the number of distinct reviewer
\* logins of the list for which the membership test answers true.
C6_CountWithinMembers ==
  Returned =>
    /\ approvedCount >= 0
    /\ approvedCount <= Cardinality(MemberLoginsOf(reviewsResponse))

C6_Witness ==
  /\ Returned
  /\ approvedCount = 2
  /\ Cardinality(MemberLoginsOf(reviewsResponse)) = 2
  /\ \E l \in Logins : EventsOf(reviewsResponse, l) # {} /\ ~IsMember(l)

\* The list whose k-th event is the p[k]-th event of reviews.
Reordered(reviews, p) == [k \in 1..Len(reviews) |-> reviews[p[k]]]

\* p changes the relative order only of events that share a timestamp and come
\* from different reviewers.
ReordersTiesAcrossReviewers(reviews, p) ==
  \A k, m \in 1..Len(reviews) :
    (k < m /\ p[k] > p[m]) =>
      /\ reviews[p[k]].submitted_at = reviews[p[m]].submitted_at
      /\ reviews[p[k]].login # reviews[p[m]].login

\* C7: approvedCount returns the same value for every reordering of the list
\* that changes the relative order only of same-timestamp events of different
\* reviewers.
C7_TieOrderAcrossReviewersIrrelevant ==
  Returned =>
    \A p \in Permutations(1..Len(reviewsResponse)) :
      ReordersTiesAcrossReviewers(reviewsResponse, p) =>
        ApprovedCountOf(Reordered(reviewsResponse, p), prLogin, membership) = approvedCount

C7_Witness ==
  /\ Returned
  /\ Len(reviewsResponse) = 3
  /\ approvedCount = 1
  /\ \E l \in Reviewers : Len(History(reviewsResponse, l)) = 2 /\ IsMember(l)
  /\ \E p \in Permutations(1..3) :
       /\ p[1] # 1
       /\ ReordersTiesAcrossReviewers(reviewsResponse, p)

(***************************************************************************)
(* Vocabulary of the properties of main.                                   *)
(***************************************************************************)
\* The membership test answers true for the author of the pull request.
AuthorIsMember == Contains(membership[PrOwner])

Called(op) == \E k \in 1..Len(calls) : calls[k][1] = op

\* Membership queries issued for another login than the author's.
ReviewerQueries ==
  {k \in 1..Len(calls) :
     calls[k][1] = "teams.getMembershipForUserInOrg" /\ calls[k][2] # PrOwner}

\* setFailed was called with the policy message (the signal without the banner).
PolicyFailureSignalled ==
  \E k \in 1..Len(failed) : failed[k][1] = "This pull request has "

RetriggerCalls ==
  {"actions.getWorkflowRun", "actions.listWorkflowRuns", "actions.reRunWorkflow"}

\* C8: when the membership test answers true for the author, the invocation
\* issues no listReviews call and no reviewer membership query and emits no
\* policy failure.
C8_InternalAuthorSkipsReconciliation ==
  AuthorIsMember =>
    /\ ~Called("pulls.listReviews")
    /\ ReviewerQueries = {}
    /\ ~PolicyFailureSignalled
    /\ approvedCount = -1

C8_Witness ==
  /\ AuthorIsMember
  /\ eventName = PULL_REQUEST
  /\ pc = "end"
  /\ Called("teams.getMembershipForUserInOrg")
  /\ failed = << >>

\* C9 as stated: with a member author no provider call follows the author's
\* membership test, on either event kind.
C9_NoCallAfterAuthorCheck ==
  AuthorIsMember =>
    \A k \in 1..Len(calls) :
      calls[k][1] \in {"pulls.get", "teams.getMembershipForUserInOrg"}

\* C9 as amended: with a member author reconciliation is skipped on both event
\* kinds; on pull_request no provider call follows the author's membership
\* test; on pull_request_review main still runs the re-trigger step, so an
\* invocation that ends without an error has looked up the workflow and listed
\* its failed runs.
C9_InternalAuthorStillRetriggersOnReview ==
  AuthorIsMember =>
    /\ ~Called("pulls.listReviews")
    /\ (eventName # PULL_REQUEST_REVIEW =>
          \A k \in 1..Len(calls) :
            calls[k][1] \in {"pulls.get", "teams.getMembershipForUserInOrg"})
    /\ (eventName = PULL_REQUEST_REVIEW /\ pc = "end" /\ failed = << >> =>
          /\ Called("actions.getWorkflowRun")
          /\ Called("actions.listWorkflowRuns"))

C9_Witness ==
  /\ AuthorIsMember
  /\ eventName = PULL_REQUEST_REVIEW
  /\ pc = "end"
  /\ failed = << >>
  /\ Called("actions.reRunWorkflow")

\* The decision of validateApprovers has been taken.
Decided == approvedCount # -1 /\ pc # "approved_count_returned"

\* C10: for a pull request of a non-member author the policy failure is
\* signalled if and only if the count approvedCount returned is strictly below
\* the required number: required - 1 approvals fail, required approvals pass.
C10_FailsExactlyBelowThreshold ==
  /\ ~Decided => ~PolicyFailureSignalled
  /\ Decided =>
       /\ ~AuthorIsMember
       /\ PolicyFailureSignalled <=> approvedCount < MIN_APPROVED_COUNT

C10_Witness ==
  /\ Decided
  /\ pc = "end"
  /\ approvedCount = MIN_APPROVED_COUNT
  /\ failed = << >>

\* A failure signal of main's catch block: it starts with the banner.
BannerSignalled ==
  \E k \in 1..Len(failed) : failed[k][1] = "Multi-approvers action failed: "

\* C11: every failure signal that is not an infrastructure error is the
\* policy message "This pull request has {count} of {required} required
\* internal approvals." with the reconciled count and the threshold 2; a
\* decision below the threshold emits it as the first signal, and it does not
\* carry the "Multi-approvers action failed: " banner.
C11_PolicyMessageExactWithoutBanner ==
  /\ \A k \in 1..Len(failed) :
       failed[k][1] # "Multi-approvers action failed: " =>
         /\ Decided
         /\ failed[k] = << "This pull request has ", ToString(approvedCount), " of ",
                           "2", " required internal approvals." >>
  /\ Decided /\ approvedCount < 2 =>
       /\ Len(failed) >= 1
       /\ failed[1] = << "This pull request has ", ToString(approvedCount), " of ",
                         "2", " required internal approvals." >>

C11_Witness ==
  /\ Decided
  /\ pc = "end"
  /\ eventName = PULL_REQUEST
  /\ approvedCount = 1
  /\ failed = << << "This pull request has ", "1", " of ", "2",
                    " required internal approvals." >> >>

\* The run names the target pull request in its pull_requests list.
NamesPull(run) ==
  /\ run.has_pull_requests
  /\ \E i \in 1..Len(run.pull_requests) : run.pull_requests[i] = PullNumber

\* The runs listWorkflowRuns answered with that name the target pull request.
QualifyingRuns ==
  IF runsResponse = << >> THEN {}
  ELSE {runsResponse[1][i] : i \in {j \in 1..Len(runsResponse[1]) :
                                      NamesPull(runsResponse[1][j])}}

RetriggerPositions ==
  {"get_workflow_run", "list_workflow_runs", "rerun_workflow"}

\* C12: on a pull_request_review event, once validateApprovers has decided,
\* pass or fail, main is in the re-trigger step or past it; no re-trigger call
\* precedes the decision; and an invocation that ends without an
\* infrastructure error has looked up the workflow, listed the failed runs
\* and, when one of them names the pull request, requested a re-run.
C12_RetriggerRunsAfterEitherDecision ==
  /\ ~Decided /\ ~AuthorIsMember => \A op \in RetriggerCalls : ~Called(op)
  /\ eventName = PULL_REQUEST_REVIEW /\ Decided =>
       /\ pc \in RetriggerPositions \cup {"catch", "end"}
       /\ pc # "get_workflow_run" => Called("actions.getWorkflowRun")
       /\ pc = "end" /\ ~BannerSignalled =>
            /\ Called("actions.listWorkflowRuns")
            /\ QualifyingRuns # {} => Called("actions.reRunWorkflow")

C12_Witness ==
  /\ eventName = PULL_REQUEST_REVIEW
  /\ Decided
  /\ pc = "end"
  /\ approvedCount = 1
  /\ failed = << << "This pull request has ", "1", " of ", "2",
                    " required internal approvals." >> >>
  /\ Called("actions.reRunWorkflow")

\* C13: an invocation triggered by pull_request never enters the re-trigger
\* step and issues none of getWorkflowRun, listWorkflowRuns, reRunWorkflow,
\* whatever the decision.
C13_PullRequestNeverRetriggers ==
  eventName = PULL_REQUEST =>
    /\ pc \notin RetriggerPositions
    /\ \A op \in RetriggerCalls : ~Called(op)
    /\ runsResponse = << >>

C13_Witness ==
  /\ eventName = PULL_REQUEST
  /\ Decided
  /\ pc = "end"
  /\ approvedCount = MIN_APPROVED_COUNT
  /\ failed = << >>
  /\ Len(calls) >= 4

\* The run ids the re-run requests were issued for.
RerunTargets ==
  {calls[k][2] : k \in {j \in 1..Len(calls) : calls[j][1] = "actions.reRunWorkflow"}}

\* C14 as stated: a re-run request targets the qualifying run with the
\* smallest id.
C14_RerunsSmallestId ==
  \A t \in RerunTargets :
    \E r \in QualifyingRuns :
      /\ t = ToString(r.id)
      /\ \A q \in QualifyingRuns : r.id <= q.id

\* C15 as stated: a re-run request targets the qualifying run with the latest
\* run_started_at.
C15_RerunsMostRecent ==
  \A t \in RerunTargets :
    \E r \in QualifyingRuns :
      /\ t = ToString(r.id)
      /\ \A q \in QualifyingRuns : r.run_started_at >= q.run_started_at

\* C16: every re-run request targets a run of the listing whose pull_requests
\* list is present and includes the target pull number.
C16_RerunsOnlyRunsNamingThePull ==
  \A t \in RerunTargets :
    /\ runsResponse # << >>
    /\ \E i \in 1..Len(runsResponse[1]) :
         /\ t = ToString(runsResponse[1][i].id)
         /\ runsResponse[1][i].has_pull_requests
         /\ \E j \in 1..Len(runsResponse[1][i].pull_requests) :
              runsResponse[1][i].pull_requests[j] = 12

\* A run of the listing that does not qualify precedes the one re-run.
C16_Witness ==
  /\ Called("actions.reRunWorkflow")
  /\ pc = "end"
  /\ Len(runsResponse[1]) = 2
  /\ ~NamesPull(runsResponse[1][1])
  /\ runsResponse[1][1].pull_requests = << 13 >>
  /\ RerunTargets = {ToString(runsResponse[1][2].id)}

\* The outcome validateApprovers alone leaves: no signal, or the policy failure.
DecisionOutcome ==
  IF Decided /\ approvedCount < MIN_APPROVED_COUNT
  THEN << << "This pull request has ", ToString(approvedCount), " of ", "2",
             " required internal approvals." >> >>
  ELSE << >>

\* C17: when the listing has answered and none of its runs names the pull
\* request, main has ended with no re-run request and no error: the failure
\* signals are those of the approval decision alone.
C17_NothingToRerunIsNoError ==
  runsResponse # << >> /\ QualifyingRuns = {} =>
    /\ pc = "end"
    /\ ~Called("actions.reRunWorkflow")
    /\ failed = DecisionOutcome

C17_Witness ==
  /\ runsResponse # << >>
  /\ Len(runsResponse[1]) = 2
  /\ QualifyingRuns = {}
  /\ pc = "end"
  /\ Decided
  /\ approvedCount = 0
  /\ Len(failed) = 1

\* The provider reports an allowed role together with the active state.
ActiveMember(l) ==
  /\ membership[l].status = 200
  /\ membership[l].role \in {"maintainer", "member"}
  /\ membership[l].state = "active"

\* The membership query for login l is the last provider call so far.
LastQueried(l) ==
  /\ Len(calls) >= 1
  /\ calls[Len(calls)] = << "teams.getMembershipForUserInOrg", l >>

\* Reviewers of the listed reviews other than the author.
OtherReviewers == {submittedReviews[k].login : k \in 1..Len(submittedReviews)} \ {prLogin}

\* C18: the membership test answers true exactly for an allowed role in state
\* active. For the author: reconciliation is entered exactly when the answer
\* is false. For reviewers: when approvedCount returns, the logins with a
\* recorded state are exactly the reviewers with an allowed role and state
\* active, so a pending member's APPROVED review is not counted.
C18_MemberIffAllowedRoleAndActive ==
  /\ Called("pulls.listReviews") => ~ActiveMember(PrOwner)
  /\ LastQueried(PrOwner) /\ membership[PrOwner].status = 200 =>
       (pc = "list_reviews" <=> ~ActiveMember(PrOwner))
  /\ pc = "approved_count_returned" =>
       /\ \A l \in OtherReviewers :
            l \in DOMAIN reviewStateByLogin <=> ActiveMember(l)
       /\ approvedCount <= Cardinality({l \in OtherReviewers : ActiveMember(l)})

C18_Witness ==
  /\ pc = "approved_count_returned"
  /\ Len(submittedReviews) = 2
  /\ \A k \in 1..2 : submittedReviews[k].state = "approved"
  /\ \E l \in OtherReviewers :
       /\ membership[l] = [status |-> 200, role |-> "member", state |-> "pending"]
       /\ l \notin DOMAIN reviewStateByLogin
  /\ \E l \in OtherReviewers :
       /\ membership[l] = [status |-> 200, role |-> "billing_manager", state |-> "active"]
       /\ l \notin DOMAIN reviewStateByLogin
  /\ approvedCount = 0

\* C19: when the last membership query was answered with 404, no error is
\* raised and the login is treated as no member (the author's pull request
\* goes to reconciliation, a reviewer gets no recorded state); when it failed
\* with another status, the error is in main's catch block or has been
\* signalled with the banner, and no decision was taken.
C19_NotFoundIsNoMemberOtherFailuresPropagate ==
  \A l \in Logins :
    LastQueried(l) =>
      /\ membership[l].status = 404 =>
           /\ pc # "catch"
           /\ err = << >>
           /\ failed = DecisionOutcome
           /\ l = PrOwner => pc = "list_reviews"
           /\ l # PrOwner /\ pc \in {"for_reviews", "approved_count_returned"} =>
                l \notin DOMAIN reviewStateByLogin
      /\ membership[l].status \notin {200, 404} =>
           /\ approvedCount = -1
           /\ \/ /\ pc = "catch"
                 /\ err = << "request failed with status ", ToString(membership[l].status) >>
                 /\ failed = << >>
              \/ /\ pc = "end"
                 /\ failed = << << "Multi-approvers action failed: ",
                                   "request failed with status ",
                                   ToString(membership[l].status) >> >>

\* A reviewer's 404 after which the decision was taken without an error.
C19_Witness ==
  /\ Decided
  /\ pc = "end"
  /\ \E l \in Logins \ {PrOwner} : LastQueried(l) /\ membership[l].status = 404
  /\ membership[PrOwner].status = 404
  /\ approvedCount = 0
  /\ Len(failed) = 1
  /\ ~BannerSignalled

\* A reviewer's membership query failed with status 500 and main has
\* signalled it.
C19_WitnessPropagated ==
  /\ pc = "end"
  /\ \E l \in Logins \ {PrOwner} : LastQueried(l) /\ membership[l].status = 500
  /\ BannerSignalled

\* The inputs main found missing, in the order validateInputs reports them.
MissingInputs ==
  (IF ~hasToken THEN << "token is required" >> ELSE << >>)
  \o (IF ~hasTeam THEN << "team is required" >> ELSE << >>)

\* The k-th failure signal names the missing input.
Lists(k, input) == \E i \in 1..Len(failed[k]) : failed[k][i] = input

C21_UnsupportedEventMessage ==
  eventName \notin {"pull_request", "pull_request_review"} =>
    /\ calls = << >>
    /\ pc \in {"main", "catch", "end"}
    /\ pc = "end" =>
         failed = << << "Multi-approvers action failed: ", "unexpected event [",
                        eventName, "]. Supported events are ",
                        "pull_request, pull_request_review" >> >>

\* C22 as stated: no error escapes main uncaught, and every error raised is
\* reported as a failure signal that starts with the banner.
C22_NoErrorEscapesMain ==
  /\ pc # "unhandled_rejection"
  /\ pc = "end" =>
       \A k \in 1..Len(failed) :
         failed[k][1] = "Multi-approvers action failed: "
           \/ failed[k][1] = "This pull request has "

\* The history ends approved: an approval that only approvals and comments follow.
StandsApproved(h) ==
  \E i \in 1..Len(h) :
    /\ h[i] = "approved"
    /\ \A j \in (i + 1)..Len(h) : h[j] \in {"approved", "commented"}

\* The count the provider state fixes: the reviewers other than the author
\* with an active membership whose chronological history ends approved.
CountOfProviderState(reviews, author) ==
  Cardinality({l \in Logins \ {author} :
                 ActiveMember(l) /\ StandsApproved(History(reviews, l))})

\* C23: the decision and its message are a function of the author, the review
\* list as the provider returned it and the membership answers, so two
\* invocations on the same provider state agree: a member author passes with
\* no message, and otherwise the step after approvedCount signals "This pull
\* request has {n} of 2 required internal approvals." exactly when the count
\* n the provider state fixes is below 2.
C23_DecisionIsFunctionOfProviderState ==
  [][/\ pc = "contains_pr_login" /\ ActiveMember(prLogin) =>
          /\ failed' = failed
          /\ pc' \notin {"list_reviews", "catch"}
     /\ pc = "approved_count_returned" =>
          LET n == CountOfProviderState(reviewsResponse, prLogin)
          IN  /\ approvedCount = n
              /\ failed' = IF n < 2
                           THEN Append(failed, << "This pull request has ", ToString(n),
                                                  " of ", "2",
                                                  " required internal approvals." >>)
                           ELSE failed]_vars

\* Two reviews listed against their chronological order, one of them deciding.
C23_Witness ==
  /\ pc = "approved_count_returned"
  /\ Len(reviewsResponse) = 2
  /\ reviewsResponse[1].login = reviewsResponse[2].login
  /\ reviewsResponse[1].state = "approved"
  /\ reviewsResponse[2].state = "request_changes"
  /\ reviewsResponse[2].submitted_at = NoTime
  /\ approvedCount = 1

\* C24: when the step that fetches the pull request raises an error, main
\* goes to its catch block, which signals the error with the banner and ends
\* the invocation; no step follows the end, so pulls.get stays the only
\* provider call.
C24_FetchFailureEndsInvocation ==
  [][/\ pc = "pulls_get" /\ err' # << >> =>
          /\ pc' = "catch"
          /\ calls' = << << "pulls.get", "12" >> >>
     /\ pc = "catch" =>
          /\ pc' = "end"
          /\ calls' = calls
          /\ failed' = Append(failed, << "Multi-approvers action failed: " >> \o err)
     /\ pc # "end"]_vars

C24_Witness ==
  /\ pc = "end"
  /\ eventName = PULL_REQUEST_REVIEW
  /\ calls = << << "pulls.get", "12" >> >>
  /\ failed = << << "Multi-approvers action failed: ",
                    "request failed with status ", "500" >> >>

\* Position of a provider call in the pipeline.
Rank(call) ==
  CASE call[1] = "pulls.get" -> 1
    [] call[1] = "teams.getMembershipForUserInOrg" /\ call[2] = PrOwner -> 2
    [] call[1] = "pulls.listReviews" -> 3
    [] call[1] = "teams.getMembershipForUserInOrg" /\ call[2] # PrOwner -> 4
    [] call[1] = "actions.getWorkflowRun" -> 5
    [] call[1] = "actions.listWorkflowRuns" -> 6
    [] call[1] = "actions.reRunWorkflow" -> 7

Ranks == {Rank(calls[k]) : k \in 1..Len(calls)}

\* C25: the provider calls are logged in the order pulls.get, author
\* membership test, listReviews, reviewer membership tests, getWorkflowRun,
\* listWorkflowRuns, reRunWorkflow, each at most once except the reviewer
\* tests and each only after the calls it depends on; the workflow-run calls
\* occur on review events only; a decision is taken only on a listed review
\* list, and a policy failure is signalled before the first workflow-run call.
C25_ProviderCallsInPipelineOrder ==
  LET n == Len(calls)
      rk == [k \in 1..n |-> Rank(calls[k])]
  IN  /\ n >= 1 => rk[1] = 1
      /\ \A k \in 2..n :
           \/ rk[k] = rk[k - 1] + 1
           \/ rk[k] = 4 /\ rk[k - 1] = 4
           \/ rk[k] = 5 /\ rk[k - 1] \in {2, 3, 4}
      /\ n >= 1 /\ rk[n] >= 5 => eventName = "pull_request_review"
      /\ approvedCount # -1 => \E k \in 1..n : rk[k] = 3
      /\ n >= 1 /\ rk[n] >= 5 /\ approvedCount # -1 /\ approvedCount < 2 =>
           /\ Len(failed) >= 1
           /\ failed[1][1] = "This pull request has "

C25_Witness ==
  /\ pc = "end"
  /\ Ranks = 1..7
  /\ Len(calls) = 8
  /\ Len(failed) = 1
  /\ approvedCount = 1

\* Number of membership queries for login l issued after the review listing.
QueriesAfterListing(l) ==
  Cardinality({k \in 4..Len(calls) :
                 calls[k] = << "teams.getMembershipForUserInOrg", l >>})

\* C26: when approvedCount returns, the membership queries it issued are one
\* per listed review event of a reviewer other than the author (as many
\* queries for a login as it has events) and none for the author.
C26_OneQueryPerNonAuthorEvent ==
  pc = "approved_count_returned" =>
    /\ calls[3][1] = "pulls.listReviews"
    /\ \A l \in Logins :
         QueriesAfterListing(l) =
           IF l = prLogin THEN 0
           ELSE Cardinality({i \in 1..Len(reviewsResponse) : reviewsResponse[i].login = l})
    /\ Len(calls) =
         3 + Cardinality({i \in 1..Len(reviewsResponse) : reviewsResponse[i].login # prLogin})

\* One reviewer with two events is queried twice.
C26_Witness ==
  /\ pc = "approved_count_returned"
  /\ Len(reviewsResponse) = 2
  /\ reviewsResponse[1].login = "approver-2"
  /\ reviewsResponse[2].login = "approver-2"
  /\ prLogin = "pr-owner"
  /\ QueriesAfterListing("approver-2") = 2
  /\ Len(calls) = 5

\* The author reviewed the pull request and is not queried for it.
C26_WitnessAuthorEvent ==
  /\ pc = "approved_count_returned"
  /\ Len(reviewsResponse) = 2
  /\ reviewsResponse[1].login = prLogin
  /\ reviewsResponse[2].login # prLogin
  /\ Len(calls) = 4

\* The variant of the fold that queries the membership test once per login and
\* answers later events of the login from the cache.
RECURSIVE MemoizedFold(_, _, _, _)
MemoizedFold(map, cache, sorted, login) ==
  IF sorted = << >> THEN map
  ELSE LET r == Head(sorted)
           known == r.login \in DOMAIN cache
           answer == IF known THEN cache[r.login]
                     ELSE /\ membership[r.login].status = 200
                          /\ membership[r.login].role \in {"maintainer", "member"}
                          /\ membership[r.login].state = "active"
           filled == IF known THEN cache
                     ELSE [l \in DOMAIN cache \cup {r.login} |->
                             IF l = r.login THEN answer ELSE cache[l]]
       IN  IF r.login = login
           THEN MemoizedFold(map, cache, Tail(sorted), login)
           ELSE MemoizedFold(IF answer THEN UpdateState(map, r) ELSE map,
                             filled, Tail(sorted), login)

MemoizedCount(reviews, login) ==
  CountApproved(MemoizedFold(EmptyMap, [l \in {} |-> TRUE], SortReviews(reviews), login))

\* C27: with membership a fixed function of the login, the count approvedCount
\* returns with one membership query per event equals the count of the variant
\* that memoizes the answer per reviewer login.
C27_MemoizationPreservesCount ==
  Returned => approvedCount = MemoizedCount(reviewsResponse, prLogin)

\* A member with two events, queried twice where the variant queries once,
\* and another reviewer with one event.
C27_Witness ==
  /\ Returned
  /\ Len(reviewsResponse) = 3
  /\ \E l \in Reviewers :
       /\ Cardinality(EventsOf(reviewsResponse, l)) = 2
       /\ IsMember(l)
  /\ \E l \in Reviewers :
       /\ ~IsMember(l)
       /\ Cardinality(EventsOf(reviewsResponse, l)) = 1
  /\ approvedCount = 1
  /\ Len(calls) = 3

\* The order p of the listed events is chronological: ascending timestamps,
\* events without one first, provider order among equals.
Chronological(reviews, p) ==
  \A k, m \in 1..Len(reviews) : k < m => Precedes(reviews, p[k], p[m])

\* C28: the sequence approvedCount folds is the listed one in ascending
\* submitted_at order, ties kept in provider order and events without a
\* timestamp first; the membership queries follow that order; so the count is
\* the number of member reviewers whose history in that order ends approved,
\* and an event without a timestamp never supersedes a timestamped one.
C28_ChronologicalStableOrder ==
  Returned =>
    /\ \E p \in Permutations(1..Len(reviewsResponse)) :
         /\ Chronological(reviewsResponse, p)
         /\ submittedReviews = [k \in 1..Len(reviewsResponse) |-> reviewsResponse[p[k]]]
    /\ calls = SelectSeq([k \in 1..Len(submittedReviews) |->
                           << "teams.getMembershipForUserInOrg", submittedReviews[k].login >>],
                         LAMBDA c : c[2] # prLogin)
    /\ approvedCount = CountOfProviderState(reviewsResponse, prLogin)

\* A reviewer's change request without a timestamp, listed after the
\* reviewer's timestamped approval, does not retract the approval.
C28_Witness ==
  /\ Returned
  /\ Len(reviewsResponse) = 2
  /\ reviewsResponse[1] =
       [login |-> "approver-1", state |-> "approved", submitted_at |-> 1]
  /\ reviewsResponse[2] =
       [login |-> "approver-1", state |-> "request_changes", submitted_at |-> NoTime]
  /\ submittedReviews = << reviewsResponse[2], reviewsResponse[1] >>
  /\ IsMember("approver-1")
  /\ approvedCount = 1

\* C29 as stated: after the call the array the caller passed holds the listed
\* events in the listed order.
C29_CallerSequenceUnchanged ==
  Returned => submittedReviews = reviewsResponse

\* C30: every re-run request is issued by an invocation on
\* pull_request_review and targets a listed run whose triggering event is
\* pull_request; the invocation the re-run starts is therefore one on
\* pull_request, which requests no re-run.
C30_RerunTargetsPullRequestRuns ==
  /\ eventName = "pull_request" => RerunTargets = {}
  /\ \A t \in RerunTargets :
       /\ eventName = "pull_request_review"
       /\ runsResponse # << >>
       /\ \E i \in 1..Len(runsResponse[1]) :
            /\ t = ToString(runsResponse[1][i].id)
            /\ runsResponse[1][i].event = "pull_request"
            /\ runsResponse[1][i].event # eventName

C30_Witness ==
  /\ pc = "end"
  /\ eventName = PULL_REQUEST_REVIEW
  /\ RerunTargets = {"827"}
  /\ Len(runsResponse[1]) = 1
  /\ runsResponse[1][1].event = "pull_request"
  /\ failed = << >>
  /\ Decided

\* The positions of the events of a history that are not comments.
Meaningful(h) == {i \in 1..Len(h) : h[i] # COMMENTED}

\* The last event of the history that is not a comment is an approval.
LastMeaningfulIsApproved(h) ==
  /\ Meaningful(h) # {}
  /\ h[CHOOSE i \in Meaningful(h) : \A j \in Meaningful(h) : j <= i] = APPROVED

\* C31: a member, non-author reviewer is counted as approved by approvedCount
\* if and only if the reviewer has at least one event whose state is not
\* COMMENTED and the chronologically last such event is APPROVED; the count
\* returned is the number of these reviewers.
C31_ApprovedIffLastMeaningfulIsApproved ==
  Returned =>
    /\ \A l \in Reviewers :
         IsMember(l) =>
           ((l \in DOMAIN reviewStateByLogin /\ reviewStateByLogin[l] = APPROVED)
              <=> LastMeaningfulIsApproved(History(reviewsResponse, l)))
    /\ approvedCount =
         Cardinality({l \in Reviewers :
                        IsMember(l) /\ LastMeaningfulIsApproved(History(reviewsResponse, l))})

\* A member comments, approves, then comments again: counted; another member
\* only comments: not counted.
C31_Witness ==
  /\ Returned
  /\ IsMember("approver-1")
  /\ IsMember("approver-2")
  /\ History(reviewsResponse, "approver-1") = << COMMENTED, APPROVED >>
  /\ History(reviewsResponse, "approver-2") = << COMMENTED >>
  /\ reviewStateByLogin["approver-2"] = COMMENTED
  /\ approvedCount = 1

\* The list without its event at position j.
RemoveAt(reviews, j) ==
  SubSeq(reviews, 1, j - 1) \o SubSeq(reviews, j + 1, Len(reviews))

\* Position j holds a second occurrence of an event of the list: the same
\* reviewer, state and timestamp.
IsDuplicateAt(reviews, j) ==
  \E i \in 1..Len(reviews) : i # j /\ reviews[i] = reviews[j]

\* Another event of the same reviewer is compared equal to the event at j
\* by the sort and has a different state.
TiesWithOtherState(reviews, j) ==
  \E i \in 1..Len(reviews) :
    /\ reviews[i].login = reviews[j].login
    /\ CompareReviews(reviews[i], reviews[j]) = 0
    /\ reviews[i].state # reviews[j].state

\* C32 as stated: approvedCount returns the same value with and without a
\* second occurrence of any event, wherever the second occurrence is listed.
C32_DuplicateNeverChangesCount ==
  Returned =>
    \A j \in 1..Len(reviewsResponse) :
      IsDuplicateAt(reviewsResponse, j) =>
        approvedCount = ApprovedCountOf(RemoveAt(reviewsResponse, j), prLogin, membership)

\* C32: approvedCount returns the same value with and without a second
\* occurrence of an event, wherever it is listed, provided no event of the
\* same reviewer with another state is compared equal to it by the sort (the
\* same submitted_at, or both without one).
C32_DuplicateWithoutTieKeepsCount ==
  Returned =>
    \A j \in 1..Len(reviewsResponse) :
      (IsDuplicateAt(reviewsResponse, j) /\ ~TiesWithOtherState(reviewsResponse, j)) =>
        approvedCount = ApprovedCountOf(RemoveAt(reviewsResponse, j), prLogin, membership)

\* A member's approval is listed a second time ahead of the later change
\* request of the same member: the count stays 0.
C32_Witness ==
  /\ Returned
  /\ IsMember("approver-1")
  /\ Len(reviewsResponse) = 3
  /\ reviewsResponse[1] = [login |-> "approver-1", state |-> APPROVED, submitted_at |-> 1]
  /\ reviewsResponse[2] = [login |-> "approver-1", state |-> "request_changes", submitted_at |-> 2]
  /\ reviewsResponse[3] = reviewsResponse[1]
  /\ approvedCount = 0
  /\ ApprovedCountOf(RemoveAt(reviewsResponse, 3), prLogin, membership) = 0

\* No two events of the list are compared equal by the sort.
DistinctTimestamps(reviews) ==
  \A i, j \in 1..Len(reviews) :
    i # j => CompareReviews(reviews[i], reviews[j]) # 0

\* C33: when all review events have distinct timestamps, approvedCount
\* returns the same value for every permutation of the input sequence.
C33_PermutationInvariantOnDistinctTimestamps ==
  (Returned /\ DistinctTimestamps(reviewsResponse)) =>
    \A p \in Permutations(1..Len(reviewsResponse)) :
      ApprovedCountOf(Reordered(reviewsResponse, p), prLogin, membership) = approvedCount

\* A member's change request of time 2 is listed before the member's approval
\* of time 1 and another member's approval: the count is 1 as in
\* chronological listing.
C33_Witness ==
  /\ Returned
  /\ IsMember("approver-1")
  /\ IsMember("approver-2")
  /\ reviewsResponse =
       << [login |-> "approver-1", state |-> "request_changes", submitted_at |-> 2],
          [login |-> "approver-2", state |-> APPROVED, submitted_at |-> NoTime],
          [login |-> "approver-1", state |-> APPROVED, submitted_at |-> 1] >>
  /\ submittedReviews # reviewsResponse
  /\ approvedCount = 1

\* C34 as stated: an invocation of main passes at most one message to
\* core.setFailed, also when a policy failure on pull_request_review is
\* followed by an error of the re-trigger step.
C34_AtMostOneFailureSignal ==
  Len(failed) <= 1

\* The positions of the re-run requests among the calls of the invocation.
RerunRequestPositions ==
  {k \in 1..Len(calls) : calls[k][1] = "actions.reRunWorkflow"}

\* C35: every invocation issues at most one re-run request, however many
\* failed runs qualify for the pull request.
C35_AtMostOneRerunRequest ==
  Cardinality(RerunRequestPositions) <= 1

\* Two failed runs of the listing name the pull request and the invocation
\* has ended with one re-run request.
C35_Witness ==
  /\ pc = "end"
  /\ Cardinality(QualifyingRuns) = 2
  /\ Cardinality(RerunRequestPositions) = 1
  /\ calls[Len(calls)][1] = "actions.reRunWorkflow"

\* The run ids revalidateApprovers can request a re-run of when the run
\* provider answers with the listing `runs`.
ChosenRunIds(runs) ==
  {sorted[1].id : sorted \in SortedByComparator(RunsOfPull(runs, PullNumber))}

\* C36 as stated: the run re-run is fixed by the set of qualifying failed
\* runs; every ordering of the runs the provider listed leads to a re-run
\* request for the run id this invocation requested.
C36_RerunTargetIndependentOfOrder ==
  \A t \in RerunTargets :
    \A q \in Permutations(1..Len(runsResponse[1])) :
      \A id \in ChosenRunIds([k \in 1..Len(runsResponse[1]) |-> runsResponse[1][q[k]]]) :
        t = ToString(id)

\* The members list of the script that holds the logins the team provider
\* answers for with an active membership.
MembersList == {l \in Logins : IsMember(l)}

\* C37: for every review list in which every event has a timestamp, every
\* author and every membership set, inOrgApprovedCount (filter out the author
\* and the non-members, sort, fold) returns the count that
\* TeamMembers.approvedCount (sort, skip the author and the non-members while
\* folding) returns.
C37_CopiesAgreeOnTimestampedReviews ==
  (Returned /\ HasTimestamps(reviewsResponse)) =>
    InOrgApprovedCounts(MembersList, reviewsResponse, prLogin) = {approvedCount}

\* A member's approval listed after the member's later comment, between an
\* approval of the author and one of a non-member: both copies return 1.
C37_Witness ==
  /\ Returned
  /\ IsMember("approver-1")
  /\ ~IsMember("approver-2")
  /\ Len(reviewsResponse) = 3
  /\ HasTimestamps(reviewsResponse)
  /\ reviewsResponse[1] = [login |-> "approver-2", state |-> APPROVED, submitted_at |-> 1]
  /\ reviewsResponse[2] = [login |-> "approver-1", state |-> COMMENTED, submitted_at |-> 2]
  /\ reviewsResponse[3] = [login |-> "approver-1", state |-> APPROVED, submitted_at |-> 1]
  /\ InOrgFiltered(MembersList, reviewsResponse, prLogin)
       = << reviewsResponse[2], reviewsResponse[3] >>
  /\ approvedCount = 1

\* C38: provided every provider call eventually returns a result or an
\* error, every invocation of main eventually reaches END, with no failure
\* signal (pass) or with one; it never stops in an intermediate state.
C38_EveryInvocationReachesEnd ==
  <>(pc = "end")

\* An invocation on pull_request_review that went through every provider
\* call, the re-run request included, and ended without a failure signal.
C38_Witness ==
  /\ pc = "end"
  /\ failed = << >>
  /\ approvedCount = MIN_APPROVED_COUNT
  /\ Len(calls) = 8
  /\ calls[1][1] = "pulls.get"
  /\ calls[8][1] = "actions.reRunWorkflow"

C10_WitnessBelow ==
  /\ Decided
  /\ pc = "end"
  /\ approvedCount = MIN_APPROVED_COUNT - 1
  /\ failed = << PolicyMessage(MIN_APPROVED_COUNT - 1) >>

====
